---- MODULE Spec2Model ----
(***************************************************************************)
(* Model of 0x02-redis_basic: exercise.py (the Cache facade with its       *)
(* count_calls / call_history decorators and replay) and web.py (get_page  *)
(* with its count_requests decorator), both running against one Redis      *)
(* database.                                                               *)
(*                                                                         *)
(* Python str values are sequences of Unicode code points, Python bytes    *)
(* and Redis keys/values are sequences of integers 0..255.                 *)
(***************************************************************************)
EXTENDS Integers, Sequences, FiniteSets, TLC

(***************************************************************************)
(* Bounds of the model.                                                    *)
(***************************************************************************)
\* longest text / byte string drawn as an input of the round-trip runs
MaxLen == 2
\* integers drawn as inputs of the round-trip runs are -MaxInt..MaxInt
MaxInt == 104
\* floats drawn as inputs are h/2 for h in -MaxHalves..MaxHalves
MaxHalves == 5
\* number of UUID tokens uuid4 can hand out (bounds the number of store calls)
MaxKeys == 2
\* number of calls of the instrumented store
MaxCalls == 2
\* number of get_page calls per url since the database was last flushed
MaxFetch == 2
\* the clock stops at MaxTime seconds
MaxTime == 12
\* number of callers of the instrumented store that run concurrently
MaxCallers == 2

(***************************************************************************)
(* Program constants.                                                      *)
(***************************************************************************)
\* cache.setex(f"cache:{url}", 10, content)
TTL == 10

(***************************************************************************)
(* Text literals of the source, as code points.                            *)
(***************************************************************************)
\* "Cache.store", the __qualname__ of Cache.store
QualName == <<67, 97, 99, 104, 101, 46, 115, 116, 111, 114, 101>>
\* ":inputs"
InputsSuffix == <<58, 105, 110, 112, 117, 116, 115>>
\* ":outputs"
OutputsSuffix == <<58, 111, 117, 116, 112, 117, 116, 115>>
\* "count:"
CountPrefix == <<99, 111, 117, 110, 116, 58>>
\* "cache:"
CachePrefix == <<99, 97, 99, 104, 101, 58>>

(***************************************************************************)
(* Sequence helpers.                                                       *)
(***************************************************************************)
RECURSIVE Concat(_)
Concat(ss) ==
    IF ss = <<>> THEN <<>> ELSE Head(ss) \o Concat(Tail(ss))

Min(a, b) == IF a <= b THEN a ELSE b

\* all sequences over alphabet A of length at most n
SeqsUpTo(A, n) == UNION {[1..m -> A] : m \in 0..n}

(***************************************************************************)
(* str.encode("utf-8") and bytes.decode("utf-8").                          *)
(***************************************************************************)
IsSurrogate(cp) == cp >= 55296 /\ cp <= 57343

EncodeCodePoint(cp) ==
    IF cp < 128 THEN <<cp>>
    ELSE IF cp < 2048 THEN <<192 + (cp \div 64), 128 + (cp % 64)>>
    ELSE IF cp < 65536
        THEN <<224 + (cp \div 4096), 128 + ((cp \div 64) % 64), 128 + (cp % 64)>>
    ELSE <<240 + (cp \div 262144), 128 + ((cp \div 4096) % 64),
           128 + ((cp \div 64) % 64), 128 + (cp % 64)>>

\* encoding fails (UnicodeEncodeError) on a lone surrogate
CanEncode(s) == \A i \in 1..Len(s) : ~IsSurrogate(s[i])

Utf8Encode(s) == Concat([i \in 1..Len(s) |-> EncodeCodePoint(s[i])])

IsCont(b) == b >= 128 /\ b <= 191

\* the length of the well-formed UTF-8 sequence that starts b at index i, or 0
Utf8SeqLen(b, i) ==
    LET n == Len(b) - i + 1
        b0 == b[i]
    IN  IF b0 < 128 THEN 1
        ELSE IF b0 >= 194 /\ b0 <= 223
            THEN (IF n >= 2 /\ IsCont(b[i + 1]) THEN 2 ELSE 0)
        ELSE IF b0 >= 224 /\ b0 <= 239
            THEN (IF n >= 3 /\ IsCont(b[i + 1]) /\ IsCont(b[i + 2])
                     /\ (b0 = 224 => b[i + 1] >= 160)
                     /\ (b0 = 237 => b[i + 1] <= 159)
                  THEN 3 ELSE 0)
        ELSE IF b0 >= 240 /\ b0 <= 244
            THEN (IF n >= 4 /\ IsCont(b[i + 1]) /\ IsCont(b[i + 2]) /\ IsCont(b[i + 3])
                     /\ (b0 = 240 => b[i + 1] >= 144)
                     /\ (b0 = 244 => b[i + 1] <= 143)
                  THEN 4 ELSE 0)
        ELSE 0

DecodeAt(b, i, k) ==
    IF k = 1 THEN b[i]
    ELSE IF k = 2 THEN (b[i] - 192) * 64 + (b[i + 1] - 128)
    ELSE IF k = 3 THEN (b[i] - 224) * 4096 + (b[i + 1] - 128) * 64 + (b[i + 2] - 128)
    ELSE (b[i] - 240) * 262144 + (b[i + 1] - 128) * 4096
         + (b[i + 2] - 128) * 64 + (b[i + 3] - 128)

RECURSIVE Utf8Valid(_, _)
Utf8Valid(b, i) ==
    IF i > Len(b) THEN TRUE
    ELSE LET k == Utf8SeqLen(b, i)
         IN  k > 0 /\ Utf8Valid(b, i + k)

RECURSIVE Utf8DecodeFrom(_, _)
Utf8DecodeFrom(b, i) ==
    IF i > Len(b) THEN <<>>
    ELSE LET k == Utf8SeqLen(b, i)
         IN  <<DecodeAt(b, i, k)>> \o Utf8DecodeFrom(b, i + k)

\* defined when Utf8Valid(b, 1); bytes.decode raises UnicodeDecodeError otherwise
Utf8Decode(b) == Utf8DecodeFrom(b, 1)

(***************************************************************************)
(* Python conversions: repr(), str(tuple), int(bytes).                     *)
(***************************************************************************)
\* decimal digits of a natural number, as ASCII codes
RECURSIVE NatRepr(_)
NatRepr(n) ==
    IF n < 10 THEN <<48 + n>> ELSE NatRepr(n \div 10) \o <<48 + (n % 10)>>

\* repr(n) of an int: "-" and the decimal digits
IntRepr(n) == IF n < 0 THEN <<45>> \o NatRepr(0 - n) ELSE NatRepr(n)

\* repr(x) of the float x = h/2: "1.5", "-0.5", "2.0"
FloatRepr(h) ==
    LET a == IF h < 0 THEN 0 - h ELSE h
    IN  (IF h < 0 THEN <<45>> ELSE <<>>) \o NatRepr(a \div 2)
        \o <<46>> \o (IF a % 2 = 0 THEN <<48>> ELSE <<53>>)

HexDigit(d) == IF d < 10 THEN 48 + d ELSE 87 + d

\* the quote repr() wraps a str or bytes in: " only if it holds ' and no "
ReprQuote(s) ==
    IF (\E i \in 1..Len(s) : s[i] = 39) /\ ~(\E i \in 1..Len(s) : s[i] = 34)
    THEN 34 ELSE 39

\* one character of repr(str); printable non-ASCII characters are kept
ReprStrChar(c, q) ==
    IF c = 92 \/ c = q THEN <<92, c>>
    ELSE IF c = 10 THEN <<92, 110>>
    ELSE IF c = 13 THEN <<92, 114>>
    ELSE IF c = 9 THEN <<92, 116>>
    ELSE IF c < 32 \/ c = 127
        THEN <<92, 120, HexDigit(c \div 16), HexDigit(c % 16)>>
    ELSE <<c>>

StrRepr(s) ==
    LET q == ReprQuote(s)
    IN  <<q>> \o Concat([i \in 1..Len(s) |-> ReprStrChar(s[i], q)]) \o <<q>>

\* one byte of repr(bytes); bytes outside printable ASCII become \xNN
ReprByte(c, q) ==
    IF c = 92 \/ c = q THEN <<92, c>>
    ELSE IF c = 10 THEN <<92, 110>>
    ELSE IF c = 13 THEN <<92, 114>>
    ELSE IF c = 9 THEN <<92, 116>>
    ELSE IF c < 32 \/ c >= 127
        THEN <<92, 120, HexDigit(c \div 16), HexDigit(c % 16)>>
    ELSE <<c>>

BytesRepr(b) ==
    LET q == ReprQuote(b)
    IN  <<98, q>> \o Concat([i \in 1..Len(b) |-> ReprByte(b[i], q)]) \o <<q>>

\* a Python object handed to store: t is its type, s its characters or bytes
\* (str, bytes), n its number (int; float n/2)
PyStr(s) == [t |-> "str", s |-> s, n |-> 0]
PyBytes(b) == [t |-> "bytes", s |-> b, n |-> 0]
PyInt(n) == [t |-> "int", s |-> <<>>, n |-> n]
PyFloat(h) == [t |-> "float", s |-> <<>>, n |-> h]
PyNone == [t |-> "NoneType", s |-> <<>>, n |-> 0]

Repr(v) ==
    IF v.t = "str" THEN StrRepr(v.s)
    ELSE IF v.t = "bytes" THEN BytesRepr(v.s)
    ELSE IF v.t = "int" THEN IntRepr(v.n)
    ELSE IF v.t = "float" THEN FloatRepr(v.n)
    ELSE <<78, 111, 110, 101>>

\* str(args) of the tuple args: "()" or "(<repr>,)"
StrArgs(args) ==
    IF Len(args) = 0 THEN <<40, 41>>
    ELSE <<40>> \o Repr(args[1]) \o <<44, 41>>

IsDigit(c) == c >= 48 /\ c <= 57
IsSpace(c) == c = 32 \/ (c >= 9 /\ c <= 13)

RECURSIVE LStrip(_)
LStrip(b) == IF b # <<>> /\ IsSpace(Head(b)) THEN LStrip(Tail(b)) ELSE b

RECURSIVE RStrip(_)
RStrip(b) ==
    IF b # <<>> /\ IsSpace(b[Len(b)]) THEN RStrip(SubSeq(b, 1, Len(b) - 1)) ELSE b

\* value of a run of digits and underscores
RECURSIVE DigitsValue(_, _)
DigitsValue(b, acc) ==
    IF b = <<>> THEN acc
    ELSE IF Head(b) = 95 THEN DigitsValue(Tail(b), acc)
    ELSE DigitsValue(Tail(b), acc * 10 + (Head(b) - 48))

\* digits, with single underscores allowed between two digits
IsIntBody(b) ==
    /\ b # <<>>
    /\ IsDigit(b[1]) /\ IsDigit(b[Len(b)])
    /\ \A i \in 1..Len(b) : IsDigit(b[i]) \/ b[i] = 95
    /\ \A i \in 1..(Len(b) - 1) : ~(b[i] = 95 /\ b[i + 1] = 95)

\* int(b) of a bytes object: whitespace stripped, optional sign, base 10;
\* ok = FALSE stands for ValueError
ParseInt(b) ==
    LET t == RStrip(LStrip(b))
        signed == t # <<>> /\ (t[1] = 45 \/ t[1] = 43)
        body == IF signed THEN Tail(t) ELSE t
    IN  IF IsIntBody(body)
        THEN [ok |-> TRUE,
              n |-> IF signed /\ t[1] = 45 THEN 0 - DigitsValue(body, 0)
                    ELSE DigitsValue(body, 0)]
        ELSE [ok |-> FALSE, n |-> 0]

(***************************************************************************)
(* The Redis database: a function from the keys present to their entries.  *)
(* An entry is a string (val) or a list (items); exp is the time at which  *)
(* it expires, or NoExpiry.  Expired keys are removed as time passes.      *)
(***************************************************************************)
NoExpiry == -1

EmptyDb == [k \in {} |-> 0]

StringEntry(b, exp) == [kind |-> "string", val |-> b, items |-> <<>>, exp |-> exp]
ListEntry(items) == [kind |-> "list", val |-> <<>>, items |-> items, exp |-> NoExpiry]

\* d with key k bound to entry e
Bind(d, k, e) == [x \in (DOMAIN d) \cup {k} |-> IF x = k THEN e ELSE d[x]]

\* the keys of d that have not expired at time t
Expire(d, t) ==
    [k \in {x \in DOMAIN d : d[x].exp = NoExpiry \/ t < d[x].exp} |-> d[k]]

\* a reply of the server: err is "" or the error, nil the null reply
Reply(d, err, nil, s, items) ==
    [db |-> d, err |-> err, nil |-> nil, s |-> s, items |-> items]

\* FLUSHDB
RedisFlushDb(d) == EmptyDb

\* SET key value: overwrites whatever the key held, without expiry
RedisSet(d, k, b) == Reply(Bind(d, k, StringEntry(b, NoExpiry)), "", FALSE, <<>>, <<>>)

\* SETEX that sets the value and no expiry
RedisSetex_no_expiry(d, k, ttl, b, t) == RedisSet(d, k, b)

\* SETEX key seconds value, at time t
RedisSetex(d, k, ttl, b, t) ==
    Reply(Bind(d, k, StringEntry(b, t + ttl)), "", FALSE, <<>>, <<>>)

\* GET key
RedisGet(d, k) ==
    IF k \notin DOMAIN d THEN Reply(d, "", TRUE, <<>>, <<>>)
    ELSE IF d[k].kind # "string" THEN Reply(d, "WRONGTYPE", FALSE, <<>>, <<>>)
    ELSE Reply(d, "", FALSE, d[k].val, <<>>)

\* the integer a string value stands for, as INCR reads it
IsRedisInt(b) ==
    LET body == IF b # <<>> /\ b[1] = 45 THEN Tail(b) ELSE b
    IN  /\ body # <<>>
        /\ \A i \in 1..Len(body) : IsDigit(body[i])
        /\ (Len(body) > 1 => body[1] # 48)
        /\ ~(Len(b) > Len(body) /\ body = <<48>>)

\* INCR key
RedisIncr(d, k) ==
    IF k \notin DOMAIN d
    THEN Reply(Bind(d, k, StringEntry(IntRepr(1), NoExpiry)), "", FALSE, IntRepr(1), <<>>)
    ELSE IF d[k].kind # "string" THEN Reply(d, "WRONGTYPE", FALSE, <<>>, <<>>)
    ELSE IF ~IsRedisInt(d[k].val) THEN Reply(d, "ERR not an integer", FALSE, <<>>, <<>>)
    ELSE LET n == ParseInt(d[k].val).n + 1
         IN  Reply(Bind(d, k, StringEntry(IntRepr(n), d[k].exp)), "", FALSE, IntRepr(n), <<>>)

\* an RPUSH that loses the items pushed before it
RedisRpush_losing(d, k, b) ==
    IF k \in DOMAIN d /\ d[k].kind # "list" THEN Reply(d, "WRONGTYPE", FALSE, <<>>, <<>>)
    ELSE Reply(Bind(d, k, ListEntry(<<b>>)), "", FALSE, <<>>, <<>>)

\* RPUSH key value
RedisRpush(d, k, b) ==
    IF k \notin DOMAIN d THEN Reply(Bind(d, k, ListEntry(<<b>>)), "", FALSE, <<>>, <<>>)
    ELSE IF d[k].kind # "list" THEN Reply(d, "WRONGTYPE", FALSE, <<>>, <<>>)
    ELSE Reply(Bind(d, k, ListEntry(Append(d[k].items, b))), "", FALSE, <<>>, <<>>)

\* LRANGE key 0 -1
RedisLrange(d, k) ==
    IF k \notin DOMAIN d THEN Reply(d, "", FALSE, <<>>, <<>>)
    ELSE IF d[k].kind # "list" THEN Reply(d, "WRONGTYPE", FALSE, <<>>, <<>>)
    ELSE Reply(d, "", FALSE, <<>>, d[k].items)

\* the client's encoding of a key or value: bytes as they are, str as UTF-8,
\* int and float by repr; err stands for the exception raised otherwise
Encode(v) ==
    IF v.t = "bytes" THEN [err |-> "", b |-> v.s]
    ELSE IF v.t = "str"
        THEN (IF CanEncode(v.s) THEN [err |-> "", b |-> Utf8Encode(v.s)]
              ELSE [err |-> "UnicodeEncodeError", b |-> <<>>])
    ELSE IF v.t = "int" THEN [err |-> "", b |-> IntRepr(v.n)]
    ELSE IF v.t = "float" THEN [err |-> "", b |-> FloatRepr(v.n)]
    ELSE [err |-> "DataError", b |-> <<>>]

(***************************************************************************)
(* What a Python call hands back: a value (None, bytes, str, int) or an    *)
(* exception raised, together with the database it leaves.                 *)
(***************************************************************************)
RetNone == [kind |-> "None", s |-> <<>>, n |-> 0, exc |-> ""]
RetBytes(b) == [kind |-> "bytes", s |-> b, n |-> 0, exc |-> ""]
RetStr(s) == [kind |-> "str", s |-> s, n |-> 0, exc |-> ""]
RetInt(n) == [kind |-> "int", s |-> <<>>, n |-> n, exc |-> ""]
Raise(exc) == [kind |-> "raise", s |-> <<>>, n |-> 0, exc |-> exc]

Outcome(d, ret) == [db |-> d, ret |-> ret]

(***************************************************************************)
(* exercise.py                                                             *)
(***************************************************************************)
\* Cache.__init__ that connects without flushing
Cache_init_no_flush(d) == d

\* Cache.__init__: connect and flush the database
Cache_init(d) == RedisFlushDb(d)

\* Cache.store returning a key without having written the value
store_without_write(d, args, key) ==
    IF Len(args) # 1 THEN Outcome(d, Raise("TypeError"))
    ELSE IF Encode(args[1]).err # "" THEN Outcome(d, Raise(Encode(args[1]).err))
    ELSE Outcome(d, RetStr(key))

\* Cache.store writing every value under one and the same key
store_under_one_key(d, args, key) ==
    IF Len(args) # 1 THEN Outcome(d, Raise("TypeError"))
    ELSE LET v == Encode(args[1])
         IN  IF v.err # "" THEN Outcome(d, Raise(v.err))
             ELSE Outcome(RedisSet(d, Utf8Encode(<<107>>), v.b).db, RetStr(<<107>>))

\* Cache.store(*args) with key the value of str(uuid.uuid4())
store(d, args, key) ==
    IF Len(args) # 1 THEN Outcome(d, Raise("TypeError"))
    ELSE LET k == Encode(PyStr(key))
             v == Encode(args[1])
         IN  IF v.err # "" THEN Outcome(d, Raise(v.err))
             ELSE Outcome(RedisSet(d, k.b, v.b).db, RetStr(key))

\* the wrapper of call_history around Cache.store
call_history(d, args, key) ==
    LET input_key == Utf8Encode(QualName \o InputsSuffix)
        output_key == Utf8Encode(QualName \o OutputsSuffix)
        pushed == RedisRpush(d, input_key, Encode(PyStr(StrArgs(args))).b)
    IN  IF pushed.err # "" THEN Outcome(d, Raise("ResponseError"))
        ELSE LET result == store(pushed.db, args, key)
             IN  IF result.ret.kind = "raise" THEN result
                 ELSE LET logged == RedisRpush(result.db, output_key,
                                               Encode(PyStr(result.ret.s)).b)
                      IN  IF logged.err # ""
                          THEN Outcome(result.db, Raise("ResponseError"))
                          ELSE Outcome(logged.db, result.ret)

\* count_calls without its increment
count_calls_no_incr(d, args, key) == call_history(d, args, key)

\* the wrapper of count_calls around the call_history wrapper
count_calls(d, args, key) ==
    LET counted == RedisIncr(d, Utf8Encode(QualName))
    IN  IF counted.err # "" THEN Outcome(d, Raise("ResponseError"))
        ELSE call_history(counted.db, args, key)

\* the converters get is called with: None, d.decode('utf-8'), int
Converters == {"None", "decode", "int"}

\* fn(data) with a failed conversion read as 0 or as the empty text
Convert_lenient(fn, data) ==
    IF fn = "decode"
    THEN (IF Utf8Valid(data, 1) THEN RetStr(Utf8Decode(data)) ELSE RetStr(<<>>))
    ELSE IF fn = "int" THEN RetInt(ParseInt(data).n)
    ELSE RetBytes(data)

Convert(fn, data) ==
    IF fn = "decode"
    THEN (IF Utf8Valid(data, 1) THEN RetStr(Utf8Decode(data))
          ELSE Raise("UnicodeDecodeError"))
    ELSE IF fn = "int"
    THEN (IF ParseInt(data).ok THEN RetInt(ParseInt(data).n) ELSE Raise("ValueError"))
    ELSE RetBytes(data)

\* Cache.get calling fn before it looks whether the key was there
get_converts_first(d, key, fn) ==
    LET data == RedisGet(d, Encode(PyStr(key)).b)
    IN  IF data.err # ""
        THEN [db |-> d, ret |-> Raise("ResponseError"), applied |-> FALSE]
        ELSE [db |-> d, ret |-> Convert(fn, data.s), applied |-> fn # "None"]

\* Cache.get returning the raw data whatever fn is
get_without_fn(d, key, fn) ==
    LET data == RedisGet(d, Encode(PyStr(key)).b)
    IN  IF data.err # ""
        THEN [db |-> d, ret |-> Raise("ResponseError"), applied |-> FALSE]
        ELSE IF data.nil THEN [db |-> d, ret |-> RetNone, applied |-> FALSE]
        ELSE [db |-> d, ret |-> RetBytes(data.s), applied |-> FALSE]

\* Cache.get(key, fn); applied tells whether fn was called
get(d, key, fn) ==
    LET data == RedisGet(d, Encode(PyStr(key)).b)
    IN  IF data.err # ""
        THEN [db |-> d, ret |-> Raise("ResponseError"), applied |-> FALSE]
        ELSE IF data.nil THEN [db |-> d, ret |-> RetNone, applied |-> FALSE]
        ELSE [db |-> d, ret |-> Convert(fn, data.s), applied |-> fn # "None"]

get_str(d, key) == get(d, key, "decode")

get_int(d, key) == get(d, key, "int")

\* "(*" and ") -> "
ReplayOpen == <<40, 42>>
ReplayArrow == <<41, 32, 45, 62, 32>>

\* the lines replay prints for the pairs zip(inputs, outputs) from index i on;
\* a line that cannot be decoded ends the output there (UnicodeDecodeError)
RECURSIVE ReplayLines(_, _, _)
ReplayLines(inputs, outputs, i) ==
    IF i > Min(Len(inputs), Len(outputs)) THEN <<>>
    ELSE IF ~(Utf8Valid(inputs[i], 1) /\ Utf8Valid(outputs[i], 1)) THEN <<>>
    ELSE <<QualName \o ReplayOpen \o Utf8Decode(inputs[i])
           \o ReplayArrow \o Utf8Decode(outputs[i])>>
         \o ReplayLines(inputs, outputs, i + 1)

\* replay that pairs the logs newest first
replay_newest_first(d) ==
    LET inputs == RedisLrange(d, Utf8Encode(QualName \o InputsSuffix))
        outputs == RedisLrange(d, Utf8Encode(QualName \o OutputsSuffix))
        n == Len(inputs.items)
        lines == ReplayLines(inputs.items, outputs.items, 1)
    IN  [db |-> d, ret |-> RetNone, count |-> n,
         lines |-> [i \in 1..Len(lines) |-> lines[Len(lines) + 1 - i]]]

\* replay that takes the entries off the logs as it reads them
replay_consuming(d) ==
    LET inputs == RedisLrange(d, Utf8Encode(QualName \o InputsSuffix))
        outputs == RedisLrange(d, Utf8Encode(QualName \o OutputsSuffix))
        kept == DOMAIN d \ {Utf8Encode(QualName \o InputsSuffix),
                            Utf8Encode(QualName \o OutputsSuffix)}
    IN  [db |-> [k \in kept |-> d[k]], ret |-> RetNone, count |-> Len(inputs.items),
         lines |-> ReplayLines(inputs.items, outputs.items, 1)]

\* replay that refuses logs of different lengths, as zip(strict=True) does
replay_strict_zip(d) ==
    LET inputs == RedisLrange(d, Utf8Encode(QualName \o InputsSuffix))
        outputs == RedisLrange(d, Utf8Encode(QualName \o OutputsSuffix))
    IN  IF Len(inputs.items) # Len(outputs.items)
        THEN [db |-> d, ret |-> Raise("ValueError"), count |-> Len(inputs.items),
              lines |-> ReplayLines(inputs.items, outputs.items, 1)]
        ELSE [db |-> d, ret |-> RetNone, count |-> Len(inputs.items),
              lines |-> ReplayLines(inputs.items, outputs.items, 1)]

\* replay(cache.store): count is the number of the "was called" line, lines
\* the call lines printed after it
replay(d) ==
    LET inputs == RedisLrange(d, Utf8Encode(QualName \o InputsSuffix))
        outputs == RedisLrange(d, Utf8Encode(QualName \o OutputsSuffix))
    IN  IF inputs.err # "" \/ outputs.err # ""
        THEN [db |-> d, ret |-> Raise("ResponseError"), count |-> 0, lines |-> <<>>]
        ELSE LET lines == ReplayLines(inputs.items, outputs.items, 1)
                 paired == Min(Len(inputs.items), Len(outputs.items))
             IN  [db |-> d,
                  ret |-> IF Len(lines) < paired THEN Raise("UnicodeDecodeError")
                          ELSE RetNone,
                  count |-> Len(inputs.items),
                  lines |-> lines]

(***************************************************************************)
(* web.py                                                                  *)
(***************************************************************************)
\* a response of requests.get: failed (an exception) or the body text
NetFail == [ok |-> FALSE, text |-> <<>>]
NetBody(text) == [ok |-> TRUE, text |-> text]

\* get_page that caches an empty page when the network fails
get_page_caches_failure(d, url, t, resp, latency) ==
    LET cached_content == RedisGet(d, Utf8Encode(CachePrefix \o url))
        t2 == t + latency
        content == IF resp.ok THEN resp.text ELSE <<>>
        written == RedisSetex(Expire(d, t2), Utf8Encode(CachePrefix \o url), TTL,
                              Encode(PyStr(content)).b, t2).db
    IN  IF ~cached_content.nil /\ cached_content.s # <<>>
        THEN [db |-> d, ret |-> RetStr(Utf8Decode(cached_content.s)), net |-> 0, t |-> t]
        ELSE [db |-> written,
              ret |-> IF resp.ok THEN RetStr(resp.text) ELSE Raise("RequestException"),
              net |-> 1, t |-> t2]

\* get_page that renews the expiry of an entry each time it serves it
get_page_sliding_expiry(d, url, t, resp, latency) ==
    LET k == Utf8Encode(CachePrefix \o url)
        cached_content == RedisGet(d, k)
        t2 == t + latency
    IN  IF ~cached_content.nil /\ cached_content.s # <<>>
        THEN [db |-> RedisSetex(d, k, TTL, cached_content.s, t).db,
              ret |-> RetStr(Utf8Decode(cached_content.s)), net |-> 0, t |-> t]
        ELSE IF ~resp.ok
        THEN [db |-> Expire(d, t2), ret |-> Raise("RequestException"), net |-> 1, t |-> t2]
        ELSE [db |-> RedisSetex(Expire(d, t2), k, TTL, Encode(PyStr(resp.text)).b, t2).db,
              ret |-> RetStr(resp.text), net |-> 1, t |-> t2]

\* get_page(url) started at time t, the network answering resp after
\* latency seconds if it is asked; net counts the network GETs made
get_page(d, url, t, resp, latency) ==
    LET cached_content == RedisGet(d, Utf8Encode(CachePrefix \o url))
    IN  IF cached_content.err # ""
        THEN [db |-> d, ret |-> Raise("ResponseError"), net |-> 0, t |-> t]
        ELSE IF ~cached_content.nil /\ cached_content.s # <<>>
        THEN [db |-> d,
              ret |-> IF Utf8Valid(cached_content.s, 1)
                      THEN RetStr(Utf8Decode(cached_content.s))
                      ELSE Raise("UnicodeDecodeError"),
              net |-> 0, t |-> t]
        ELSE LET t2 == t + latency
                 d2 == Expire(d, t2)
             IN  IF ~resp.ok
                 THEN [db |-> d2, ret |-> Raise("RequestException"), net |-> 1, t |-> t2]
                 ELSE [db |-> RedisSetex(d2, Utf8Encode(CachePrefix \o url), TTL,
                                         Encode(PyStr(resp.text)).b, t2).db,
                       ret |-> RetStr(resp.text), net |-> 1, t |-> t2]

\* count_requests counting the calls of every url under the one key "count:"
count_requests_one_counter(d, url, t, resp, latency) ==
    get_page(RedisIncr(d, Utf8Encode(CountPrefix)).db, url, t, resp, latency)

\* count_requests counting only the calls that went to the network
count_requests_counts_misses(d, url, t, resp, latency) ==
    LET r == get_page(d, url, t, resp, latency)
    IN  IF r.net = 0 THEN r
        ELSE get_page(RedisIncr(d, Utf8Encode(CountPrefix \o url)).db,
                      url, t, resp, latency)

\* the wrapper of count_requests around get_page
count_requests(d, url, t, resp, latency) ==
    LET counted == RedisIncr(d, Utf8Encode(CountPrefix \o url))
    IN  IF counted.err # ""
        THEN [db |-> d, ret |-> Raise("ResponseError"), net |-> 0, t |-> t]
        ELSE get_page(counted.db, url, t, resp, latency)

(***************************************************************************)
(* Inputs.                                                                 *)
(***************************************************************************)
\* the tokens uuid4 hands out, "k1", "k2", ...: never the same one twice
UUIDs == {<<107, 48 + i>> : i \in 1..MaxKeys}
\* "no": a key no store call returns
NeverKey == <<110, 111>>
\* the keys get is called with
ProbeKeys == UUIDs \cup {NeverKey, QualName, QualName \o InputsSuffix}

\* the urls get_page is called with: "u1", "u2"
URLs == {<<117, 49>>, <<117, 50>>}
\* the url of the timed runs
TimedURLs == {<<117, 49>>}
\* the time a network GET takes, in seconds
Latencies == {0, 1}
\* what the network answers: a failure, an empty body, a body with a
\* non-ASCII character
Responses == {NetFail, NetBody(<<>>), NetBody(<<233>>)}

\* argument tuples of the store calls of the multi-call runs:
\* (), ("é",), (b"\xff",), (-7,), (None,)
NarrowArgs ==
    {<<>>, <<PyStr(<<233>>)>>, <<PyBytes(<<255>>)>>, <<PyInt(-7)>>, <<PyNone>>}

\* every value of the supported types within the bounds, and None
WideValues ==
    {PyStr(t) : t \in SeqsUpTo({55, 97, 233, 8364}, MaxLen)}
    \cup {PyBytes(b) : b \in SeqsUpTo({32, 45, 55, 169, 195, 255}, MaxLen)}
    \cup {PyInt(n) : n \in (0 - MaxInt)..MaxInt}
    \cup {PyFloat(h) : h \in (0 - MaxHalves)..MaxHalves}
    \cup {PyNone}

(***************************************************************************)
(* State.                                                                  *)
(*   db       the Redis database                                           *)
(*   now      the time, in seconds                                         *)
(*   issued   the tokens uuid4 has handed out                              *)
(*   last     the last call made and what the caller saw of it             *)
(*   calls    the calls of the instrumented store since the last flush,    *)
(*            in call order: argument tuple and outcome                    *)
(*   stored   the value handed to store for every key store has returned   *)
(*            since the last flush                                         *)
(*   fetches  per url: total, the number of get_page calls ever made; n,   *)
(*            the number made since the last flush; recs, the last two of  *)
(*            these, in call order                                         *)
(*   procs    per concurrent caller of the instrumented store: state (idle, *)
(*            running, returned, raised), pc the place in Program of the   *)
(*            primitive it sends next, args its argument tuple, key the    *)
(*            key its store returned, did the primitives it has sent       *)
(***************************************************************************)
VARIABLES db, now, issued, last, calls, stored, fetches, procs

vars == <<db, now, issued, last, calls, stored, fetches, procs>>

\* the callers that call the instrumented store concurrently
Callers == 1..MaxCallers

\* the order of a count_calls that counts after the method has returned
Program_count_last == <<"log_input", "store", "log_output", "incr">>

\* the primitives one call of the decorated store sends to Redis, in the
\* order of the wrappers: INCR (count_calls), RPUSH inputs, the SET of the
\* method, RPUSH outputs (call_history)
Program == <<"incr", "log_input", "store", "log_output">>

\* a caller that has not called yet
Idle == [state |-> "idle", pc |-> 1, args |-> <<>>, key |-> <<>>, did |-> <<>>]

Last(op, arg, ret, applied, count, lines, cleared) ==
    [op |-> op, arg |-> arg, ret |-> ret, applied |-> applied,
     count |-> count, lines |-> lines, cleared |-> cleared]

Init ==
    /\ db = EmptyDb
    /\ now = 0
    /\ issued = {}
    /\ last = Last("__init__", <<>>, RetNone, FALSE, 0, <<>>, {})
    /\ calls = <<>>
    /\ stored = EmptyDb
    /\ fetches = [u \in URLs |-> [total |-> 0, n |-> 0, recs |-> <<>>]]
    /\ procs = [p \in Callers |-> Idle]

\* the value stored under a key a store call returned
Remember(m, args, ret) ==
    IF ret.kind = "raise" THEN m ELSE Bind(m, ret.s, args[1])

\* uuid4 is reached unless the call fails on its argument count
Drawn(args, key) == IF Len(args) = 1 THEN issued \cup {key} ELSE issued

\* the last two elements of a sequence
LastTwo(q) == IF Len(q) <= 2 THEN q ELSE SubSeq(q, Len(q) - 1, Len(q))

\* cache = Cache(): the database is flushed
CacheInit ==
    /\ db' = Cache_init(db)
    /\ last' = Last("__init__", <<>>, RetNone, FALSE, 0, <<>>, DOMAIN db)
    /\ calls' = <<>>
    /\ stored' = EmptyDb
    /\ fetches' = [u \in URLs |-> [fetches[u] EXCEPT !.n = 0, !.recs = <<>>]]
    /\ UNCHANGED <<now, issued, procs>>

\* cache.store(*args), Cache.store as it stands in the source (undecorated)
Store(args) ==
    \E key \in UUIDs \ issued :
        LET r == store(db, args, key)
        IN  /\ db' = r.db
            /\ issued' = Drawn(args, key)
            /\ last' = Last("store", StrArgs(args), r.ret, FALSE, 0, <<>>, {})
            /\ stored' = Remember(stored, args, r.ret)
            /\ UNCHANGED <<now, calls, fetches, procs>>

\* cache.store(*args) with Cache.store decorated @count_calls @call_history
StoreInstrumented(args) ==
    /\ Len(calls) < MaxCalls
    /\ \E key \in UUIDs \ issued :
        LET r == count_calls(db, args, key)
        IN  /\ db' = r.db
            /\ issued' = Drawn(args, key)
            /\ last' = Last("store", StrArgs(args), r.ret, FALSE, 0, <<>>, {})
            /\ calls' = Append(calls, [args |-> args, ret |-> r.ret])
            /\ stored' = Remember(stored, args, r.ret)
            /\ UNCHANGED <<now, fetches, procs>>

\* cache.get(key, fn), cache.get_str(key), cache.get_int(key)
Get(key, fn) ==
    LET r == get(db, key, fn)
    IN  /\ db' = r.db
        /\ last' = Last("get", key, r.ret, r.applied, 0, <<>>, {})
        /\ UNCHANGED <<now, issued, calls, stored, fetches, procs>>

GetStr(key) ==
    LET r == get_str(db, key)
    IN  /\ db' = r.db
        /\ last' = Last("get_str", key, r.ret, r.applied, 0, <<>>, {})
        /\ UNCHANGED <<now, issued, calls, stored, fetches, procs>>

GetInt(key) ==
    LET r == get_int(db, key)
    IN  /\ db' = r.db
        /\ last' = Last("get_int", key, r.ret, r.applied, 0, <<>>, {})
        /\ UNCHANGED <<now, issued, calls, stored, fetches, procs>>

\* replay(cache.store)
Replay ==
    LET r == replay(db)
    IN  /\ db' = r.db
        /\ last' = Last("replay", <<>>, r.ret, FALSE, r.count, r.lines, {})
        /\ UNCHANGED <<now, issued, calls, stored, fetches, procs>>

\* one second passes; keys whose time has come expire.  The clock is
\* started by the first get_page call and is not run past the last one the
\* bounds allow.
Tick ==
    /\ now < MaxTime
    /\ \E u \in URLs : fetches[u].total > 0
    /\ \E u \in TimedURLs : \/ fetches[u].total < MaxFetch
                            \/ Utf8Encode(CachePrefix \o u) \in DOMAIN db
    /\ now' = now + 1
    /\ db' = Expire(db, now + 1)
    /\ UNCHANGED <<issued, last, calls, stored, fetches, procs>>

\* get_page(url): the decorated function of web.py
GetPage(url, resp, latency) ==
    /\ fetches[url].total < MaxFetch
    /\ now + latency <= MaxTime
    /\ LET r == count_requests(db, url, now, resp, latency)
       IN  /\ db' = r.db
           /\ now' = r.t
           /\ last' = Last("get_page", url, r.ret, FALSE, 0, <<>>, {})
           /\ fetches' = [fetches EXCEPT ![url] =
                  [total |-> @.total + 1, n |-> @.n + 1,
                   recs |-> LastTwo(Append(@.recs,
                       [start |-> now, end |-> r.t, ret |-> r.ret, net |-> r.net,
                        uncached |-> Utf8Encode(CachePrefix \o url) \notin DOMAIN db]))]]
           /\ UNCHANGED <<issued, calls, stored, procs>>

(***************************************************************************)
(* One call of the decorated store, primitive by primitive.  Redis runs    *)
(* each command atomically; between two commands of one caller the         *)
(* commands of other callers may run.                                      *)
(***************************************************************************)
\* argument tuples of the concurrent calls: ("é",), (-7,), (None,)
ConcurrentArgs == {<<PyStr(<<233>>)>>, <<PyInt(-7)>>, <<PyNone>>}

\* caller p is about to send the primitive prim
Due(p, prim) ==
    /\ procs[p].state = "running"
    /\ procs[p].pc <= Len(Program)
    /\ Program[procs[p].pc] = prim

\* the caller after it has sent prim; after the last primitive the call returns
Advance(pr, prim) ==
    [pr EXCEPT !.pc = @ + 1, !.did = Append(@, prim),
               !.state = IF pr.pc = Len(Program) THEN "returned" ELSE "running"]

\* the caller after an exception has ended its call
Raised(pr) == [pr EXCEPT !.state = "raised"]

\* cache.store(*args) is called: the wrapper of count_calls is entered
Call(p, args) ==
    /\ procs[p].state = "idle"
    /\ procs' = [procs EXCEPT ![p] = [@ EXCEPT !.state = "running", !.args = args]]
    /\ UNCHANGED <<db, now, issued, last, calls, stored, fetches>>

\* self._redis.incr(key) of count_calls
StepIncr(p) ==
    /\ Due(p, "incr")
    /\ LET counted == RedisIncr(db, Utf8Encode(QualName))
       IN  /\ db' = counted.db
           /\ procs' = [procs EXCEPT ![p] = IF counted.err # "" THEN Raised(@)
                                            ELSE Advance(@, "incr")]
    /\ UNCHANGED <<now, issued, last, calls, stored, fetches>>

\* self._redis.rpush(input_key, str(args)) of call_history
StepLogInput(p) ==
    /\ Due(p, "log_input")
    /\ LET pushed == RedisRpush(db, Utf8Encode(QualName \o InputsSuffix),
                                Encode(PyStr(StrArgs(procs[p].args))).b)
       IN  /\ db' = pushed.db
           /\ procs' = [procs EXCEPT ![p] = IF pushed.err # "" THEN Raised(@)
                                            ELSE Advance(@, "log_input")]
    /\ UNCHANGED <<now, issued, last, calls, stored, fetches>>

\* result = method(self, *args): the undecorated store draws a key and
\* sends SET, or raises
StepStore(p) ==
    /\ Due(p, "store")
    /\ \E key \in UUIDs \ issued :
           LET result == store(db, procs[p].args, key)
           IN  /\ db' = result.db
               /\ issued' = Drawn(procs[p].args, key)
               /\ procs' = [procs EXCEPT ![p] =
                      IF result.ret.kind = "raise" THEN Raised(@)
                      ELSE Advance([@ EXCEPT !.key = result.ret.s], "store")]
    /\ UNCHANGED <<now, last, calls, stored, fetches>>

\* self._redis.rpush(output_key, result) of call_history
StepLogOutput(p) ==
    /\ Due(p, "log_output")
    /\ LET logged == RedisRpush(db, Utf8Encode(QualName \o OutputsSuffix),
                                Encode(PyStr(procs[p].key)).b)
       IN  /\ db' = logged.db
           /\ procs' = [procs EXCEPT ![p] = IF logged.err # "" THEN Raised(@)
                                            ELSE Advance(@, "log_output")]
    /\ UNCHANGED <<now, issued, last, calls, stored, fetches>>

(***************************************************************************)
(* Specifications.                                                         *)
(***************************************************************************)
\* the Cache facade: any sequence of its calls
Next ==
    \/ CacheInit
    \/ \E args \in NarrowArgs : Store(args)
    \/ \E args \in NarrowArgs : StoreInstrumented(args)
    \/ \E key \in ProbeKeys : Get(key, "None")
    \/ \E key \in ProbeKeys : GetStr(key)
    \/ \E key \in ProbeKeys : GetInt(key)
    \/ Replay

Spec == Init /\ [][Next]_vars

\* one store call with any value of the bounded input sets, then reads
NextRoundTrip ==
    \/ issued = {} /\ \E v \in WideValues : Store(<<v>>)
    \/ issued = {} /\ \E v \in WideValues : StoreInstrumented(<<v>>)
    \/ \E key \in ProbeKeys : Get(key, "None")
    \/ \E key \in ProbeKeys : GetStr(key)
    \/ \E key \in ProbeKeys : GetInt(key)

SpecRoundTrip == Init /\ [][NextRoundTrip]_vars

\* get_page over time, beside a facade that flushes and stores
NextFetch ==
    \/ Tick
    \/ \E u \in TimedURLs, resp \in Responses, latency \in Latencies :
           GetPage(u, resp, latency)
    \/ CacheInit
    \/ issued = {} /\ StoreInstrumented(<<PyStr(<<97>>)>>)

SpecFetch == Init /\ [][NextFetch]_vars

\* get_page called for two urls beside a facade that stores, all within one
\* second: the network answers at once and no entry expires
NextFrame ==
    \/ \E url \in URLs, resp \in Responses : GetPage(url, resp, 0)
    \/ issued = {} /\ StoreInstrumented(<<PyStr(<<97>>)>>)

SpecFrame == Init /\ [][NextFrame]_vars

\* callers of the instrumented store running concurrently, each making one call
NextConcurrent ==
    \E p \in Callers :
        \/ \E args \in ConcurrentArgs : Call(p, args)
        \/ StepIncr(p)
        \/ StepLogInput(p)
        \/ StepStore(p)
        \/ StepLogOutput(p)

SpecConcurrent == Init /\ [][NextConcurrent]_vars

(***************************************************************************)
(* Readings of the database used by the properties.                        *)
(***************************************************************************)
\* the integer a counter key holds; an absent counter reads as 0
CounterValue(k) ==
    IF Utf8Encode(k) \in DOMAIN db THEN ParseInt(db[Utf8Encode(k)].val).n ELSE 0

\* the items of a list key; an absent list is empty
ListItems(k) ==
    IF Utf8Encode(k) \in DOMAIN db THEN db[Utf8Encode(k)].items ELSE <<>>

InputsLog == ListItems(QualName \o InputsSuffix)
OutputsLog == ListItems(QualName \o OutputsSuffix)

\* every call of the instrumented store since the last flush returned a key
AllReturned == \A i \in 1..Len(calls) : calls[i].ret.kind = "str"

GetOps == {"get", "get_str", "get_int"}

(***************************************************************************)
(* C1.  After n sequential calls of the instrumented store that each       *)
(* returned a key, the call counter "Cache.store" equals n, the inputs     *)
(* log and the outputs log both have length n, inputs[i] is str(args) of   *)
(* the i-th call and outputs[i] is the key the i-th call returned.         *)
(***************************************************************************)
C1_CounterAndLogsFollowCalls ==
    AllReturned =>
        /\ CounterValue(QualName) = Len(calls)
        /\ Len(InputsLog) = Len(calls)
        /\ Len(OutputsLog) = Len(calls)
        /\ \A i \in 1..Len(calls) :
            /\ Utf8Valid(InputsLog[i], 1)
            /\ Utf8Decode(InputsLog[i]) = StrArgs(calls[i].args)
            /\ Utf8Valid(OutputsLog[i], 1)
            /\ Utf8Decode(OutputsLog[i]) = calls[i].ret.s

\* two instrumented calls with different arguments have returned, with an
\* undecorated store call beside them
C1_Witness ==
    /\ Len(calls) = 2 /\ AllReturned
    /\ calls[1].args # calls[2].args
    /\ calls[1].ret.s # calls[2].ret.s
    /\ CounterValue(QualName) = 2

(***************************************************************************)
(* C2.  Round trip: for every value v of a supported type, get on the key  *)
(* store(v) returned yields the bytes that stand for v (v itself for       *)
(* bytes, its UTF-8 form for text, its decimal form for an integer, its    *)
(* repr for a float); get_str yields s for every text s and get_int        *)
(* yields n for every integer n.                                           *)
(***************************************************************************)
\* b is content byte-equivalent to the value v
ByteEquivalent(b, v) ==
    IF v.t = "bytes" THEN b = v.s
    ELSE IF v.t = "str" THEN Utf8Valid(b, 1) /\ Utf8Decode(b) = v.s
    ELSE IF v.t = "int" THEN b = IntRepr(v.n) /\ ParseInt(b) = [ok |-> TRUE, n |-> v.n]
    ELSE b = FloatRepr(v.n)

C2_RoundTrip ==
    \A key \in DOMAIN stored :
        LET v == stored[key]
        IN  last.arg = key =>
                /\ last.op = "get" =>
                       last.ret.kind = "bytes" /\ ByteEquivalent(last.ret.s, v)
                /\ (last.op = "get_str" /\ v.t = "str") => last.ret = RetStr(v.s)
                /\ (last.op = "get_int" /\ v.t = "int") => last.ret = RetInt(v.n)

\* get_int has read back a negative integer of several digits
C2_Witness ==
    /\ last.op = "get_int"
    /\ last.arg \in DOMAIN stored
    /\ stored[last.arg].t = "int"
    /\ stored[last.arg].n < -99
    /\ last.ret = RetInt(stored[last.arg].n)

(***************************************************************************)
(* C7.  get, get_str and get_int on a key that is absent from the database *)
(* return None and raise nothing, the converter is not called, and the     *)
(* database is left as it was.                                             *)
(***************************************************************************)
C7_AbsentKeyReadsNone ==
    [][(last'.op \in GetOps /\ Utf8Encode(last'.arg) \notin DOMAIN db) =>
           /\ last'.ret = RetNone
           /\ ~last'.applied
           /\ db' = db]_vars

\* get_int was called with a key never stored while the database held
\* values, counters and logs
C7_Witness ==
    /\ last.op = "get_int"
    /\ last.arg = NeverKey
    /\ last.ret = RetNone
    /\ Len(InputsLog) = 2
    /\ Cardinality(DOMAIN stored) = 2

(***************************************************************************)
(* C9.  The inputs log and the outputs log each receive exactly one entry  *)
(* per invocation of the instrumented operation, so that whenever no call  *)
(* is in progress both have as many entries as there were invocations,     *)
(* whether these returned or failed.                                       *)
(***************************************************************************)
C9_LogsSameLengthAlways ==
    /\ Len(InputsLog) = Len(calls)
    /\ Len(OutputsLog) = Len(calls)

(***************************************************************************)
(* C10.  replay reports as call count the length of the inputs log; when   *)
(* the two logs are paired (equally long) it prints one line per call,     *)
(* the i-th line being the name, an opening parenthesis and a star, the    *)
(* decoded inputs[i], a closing parenthesis and an arrow, the decoded      *)
(* outputs[i], oldest first; when store was never called it reports zero   *)
(* calls and prints no call line.                                          *)
(***************************************************************************)
C10_ReplayReportsLog ==
    last.op = "replay" =>
        /\ last.ret = RetNone
        /\ last.count = Len(InputsLog)
        /\ Len(InputsLog) = Len(OutputsLog) =>
               /\ Len(last.lines) = last.count
               /\ \A i \in 1..Len(last.lines) :
                      last.lines[i] = QualName \o ReplayOpen \o Utf8Decode(InputsLog[i])
                                      \o ReplayArrow \o Utf8Decode(OutputsLog[i])
        /\ calls = <<>> => (last.count = 0 /\ last.lines = <<>>)

\* replay has printed two different lines for two calls
C10_Witness ==
    /\ last.op = "replay"
    /\ last.count = 2
    /\ Len(last.lines) = 2
    /\ last.lines[1] # last.lines[2]

(***************************************************************************)
(* Readings of the get_page calls.                                         *)
(***************************************************************************)
\* the last two get_page calls for url u since the last flush
Recs(u) == fetches[u].recs
HasPair(u) == Len(Recs(u)) = 2

\* the call ended in the exception of the network transport
NetFailed(r) == r.ret = Raise("RequestException")

(***************************************************************************)
(* C3.  Two get_page calls for a url, the first finding the url uncached   *)
(* and getting a body from the network, the second made less than 10       *)
(* seconds after the first: together they make exactly one network GET     *)
(* and count:{url} is 2 after the first two calls, whatever the body.      *)
(***************************************************************************)
C3_SecondCallWithinTTLIsServedFromCache ==
    \A u \in URLs :
        (/\ HasPair(u)
         /\ Recs(u)[1].uncached
         /\ Recs(u)[1].ret.kind = "str"
         /\ Recs(u)[2].start - Recs(u)[1].start < TTL) =>
            /\ Recs(u)[1].net + Recs(u)[2].net = 1
            /\ fetches[u].n = 2 => CounterValue(CountPrefix \o u) = 2

(***************************************************************************)
(* C4.  Two get_page calls for a url, the second made 11 seconds or more   *)
(* after the first returned from its network GET: the entry the first      *)
(* wrote has expired and the second makes a network GET too.               *)
(***************************************************************************)
C4_SecondCallAfterElevenSecondsFetches ==
    \A u \in URLs :
        (/\ HasPair(u)
         /\ Recs(u)[1].net = 1
         /\ Recs(u)[2].start - Recs(u)[1].end >= 11) =>
            /\ Recs(u)[2].uncached
            /\ Recs(u)[1].net + Recs(u)[2].net = 2

\* a body was fetched and cached, and exactly 11 seconds later fetched again
C4_Witness ==
    \E u \in URLs :
        /\ HasPair(u)
        /\ Recs(u)[1].ret.kind = "str" /\ Recs(u)[1].ret.s # <<>>
        /\ Recs(u)[1].end = Recs(u)[1].start + 1
        /\ Recs(u)[2].start - Recs(u)[1].end = 11
        /\ Recs(u)[2].net = 1

(***************************************************************************)
(* C5.  count:{url} equals the number of get_page calls made for the url   *)
(* since the database was last flushed: cache hits, cache misses and       *)
(* calls whose network GET failed are all counted.                         *)
(***************************************************************************)
C5_CountEqualsCalls ==
    \A u \in URLs : CounterValue(CountPrefix \o u) = fetches[u].n

\* a miss and then a hit, both counted
C5_Witness ==
    \E u \in URLs :
        /\ fetches[u].n = 2
        /\ Recs(u)[1].net = 1 /\ Recs(u)[1].ret.kind = "str"
        /\ Recs(u)[2].net = 0 /\ Recs(u)[2].ret.kind = "str"
        /\ CounterValue(CountPrefix \o u) = 2

(***************************************************************************)
(* C6.  A get_page call whose network GET fails raises, and leaves         *)
(* cache:{url} absent or as it was; the next get_page call for the url     *)
(* makes a network GET again.                                              *)
(***************************************************************************)
C6_FailedFetchCachesNothing ==
    /\ [][\A u \in URLs :
            (fetches'[u].total = fetches[u].total + 1 /\ NetFailed(last')) =>
                LET k == Utf8Encode(CachePrefix \o u)
                IN  k \in DOMAIN db' => (k \in DOMAIN db /\ db'[k] = db[k])]_vars
    /\ [](\A u \in URLs :
            (HasPair(u) /\ NetFailed(Recs(u)[1])) => Recs(u)[2].net = 1)

\* a failed call was followed by a call that fetched and cached a body
C6_Witness ==
    \E u \in URLs :
        /\ HasPair(u)
        /\ NetFailed(Recs(u)[1])
        /\ Recs(u)[2].net = 1 /\ Recs(u)[2].ret.kind = "str"
        /\ Utf8Encode(CachePrefix \o u) \in DOMAIN db

(***************************************************************************)
(* C8.  Right after Cache() is constructed the database holds no entry:    *)
(* stored values, call counters, call-history logs, count:{url} counters   *)
(* and cache:{url} entries written before are all gone.                    *)
(***************************************************************************)
C8_InitClearsEverything ==
    last.op = "__init__" => db = EmptyDb

\* the construction cleared an entry of each kind
C8_Witness ==
    /\ last.op = "__init__"
    /\ \E key \in UUIDs : Utf8Encode(key) \in last.cleared
    /\ \E u \in URLs :
        {Utf8Encode(QualName), Utf8Encode(QualName \o InputsSuffix),
         Utf8Encode(QualName \o OutputsSuffix), Utf8Encode(CountPrefix \o u),
         Utf8Encode(CachePrefix \o u)} \subseteq last.cleared

(***************************************************************************)
(* C11.  get_str on a present key whose bytes are not valid UTF-8 raises   *)
(* UnicodeDecodeError, get_int on a present key whose bytes int() does not *)
(* read as a decimal integer raises ValueError (a stored float and a       *)
(* stored text without digits are such bytes); neither returns a value,    *)
(* the entry is left as it was and get still returns its raw bytes.        *)
(***************************************************************************)
\* the string entry the database holds under key, if any
HoldsString(d, key) ==
    Utf8Encode(key) \in DOMAIN d /\ d[Utf8Encode(key)].kind = "string"

C11_InvalidBytesRaise ==
    [][(last'.op \in {"get_str", "get_int"} /\ HoldsString(db, last'.arg)) =>
           LET raw == db[Utf8Encode(last'.arg)].val
               invalid == IF last'.op = "get_str" THEN ~Utf8Valid(raw, 1)
                          ELSE ~ParseInt(raw).ok
               floatOrWord == /\ last'.op = "get_int"
                              /\ last'.arg \in DOMAIN stored
                              /\ \/ stored[last'.arg].t = "float"
                                 \/ stored[last'.arg] \in {PyStr(<<97>>), PyStr(<<233>>)}
           IN  /\ floatOrWord => invalid
               /\ invalid =>
                      /\ last'.ret = Raise(IF last'.op = "get_str"
                                           THEN "UnicodeDecodeError" ELSE "ValueError")
                      /\ db' = db
                      /\ get(db', last'.arg, "None").ret = RetBytes(raw)]_vars

\* get_int has raised on the key of a stored float
C11_Witness ==
    /\ last.op = "get_int"
    /\ last.ret = Raise("ValueError")
    /\ last.arg \in DOMAIN stored
    /\ stored[last.arg].t = "float"
    /\ HoldsString(db, last.arg)

(***************************************************************************)
(* C12.  A get_page call that finds a live cache:{url} entry returns the   *)
(* entry's content, decoded, and makes no network GET, whatever content    *)
(* an earlier miss has stored, the empty body included.                    *)
(***************************************************************************)
C12_LiveEntryIsServedWithoutFetch ==
    [][\A u \in URLs :
          LET k == Utf8Encode(CachePrefix \o u)
          IN  (fetches'[u].total = fetches[u].total + 1 /\ k \in DOMAIN db) =>
                  /\ last'.ret = RetStr(Utf8Decode(db[k].val))
                  /\ Recs(u)'[Len(Recs(u)')].net = 0]_vars

C15_ReplayPairsTheShorterLog ==
    (last.op = "replay" /\ Len(InputsLog) # Len(OutputsLog)) =>
        /\ last.ret.kind # "raise"
        /\ last.count = Len(InputsLog)
        /\ Len(last.lines) = Min(Len(InputsLog), Len(OutputsLog))
        /\ \A i \in 1..Len(last.lines) :
               last.lines[i] = QualName \o ReplayOpen \o Utf8Decode(InputsLog[i])
                               \o ReplayArrow \o Utf8Decode(OutputsLog[i])

\* replay has reported two calls and printed one line, which pairs the
\* arguments of the first call, that failed, with the key of the second
C15_Witness ==
    /\ last.op = "replay"
    /\ last.count = 2
    /\ Len(last.lines) = 1
    /\ Len(calls) = 2
    /\ calls[1].ret.kind = "raise"
    /\ calls[2].ret.kind = "str"
    /\ last.lines[1] = QualName \o ReplayOpen \o StrArgs(calls[1].args)
                       \o ReplayArrow \o calls[2].ret.s

(***************************************************************************)
(* C16.  replay only reads: the database after a replay call is the        *)
(* database before it, entry for entry.                                    *)
(***************************************************************************)
C16_ReplayIsReadOnly ==
    [][last'.op = "replay" => db' = db]_vars

\* replay has run over a database that holds the counter, both logs and a
\* stored value
C16_Witness ==
    /\ last.op = "replay"
    /\ last.count > 0
    /\ CounterValue(QualName) > 0
    /\ OutputsLog # <<>>
    /\ \E key \in DOMAIN stored : Utf8Encode(key) \in DOMAIN db

(***************************************************************************)
(* C18.  A store call that returns a key has written under a key that no   *)
(* earlier store call was given and that no entry of the database used, so *)
(* it overwrites nothing; and as long as the database is not flushed every *)
(* key returned so far still holds, and get still returns, the bytes of    *)
(* the value it was stored with.                                           *)
(***************************************************************************)
C18_StoreNeverOverwrites ==
    /\ [][(last'.op = "store" /\ last'.ret.kind = "str") =>
              /\ last'.ret.s \notin issued
              /\ Utf8Encode(last'.ret.s) \notin DOMAIN db
              /\ \A k \in DOMAIN db \ {Utf8Encode(QualName),
                                        Utf8Encode(QualName \o InputsSuffix),
                                        Utf8Encode(QualName \o OutputsSuffix)} :
                     k \in DOMAIN db' /\ db'[k] = db[k]]_vars
    /\ [](\A key \in DOMAIN stored :
            /\ HoldsString(db, key)
            /\ get(db, key, "None").ret = RetBytes(Encode(stored[key]).b))

\* two keys were returned for two different values, and the first value was
\* read back after the second was stored
C18_Witness ==
    /\ last.op = "get"
    /\ last.arg \in DOMAIN stored
    /\ last.ret = RetBytes(Encode(stored[last.arg]).b)
    /\ \E other \in DOMAIN stored :
           other # last.arg /\ stored[other] # stored[last.arg]

(***************************************************************************)
(* C20.  A get_page(u) call changes no key of the database other than      *)
(* count:{u} and cache:{u}: the counter and the cache entry of every other *)
(* url, the values stored through the facade, its call counter and its     *)
(* two logs are after the call what they were before it, and no other key  *)
(* appears.                                                                *)
(***************************************************************************)
C20_GetPageTouchesOnlyItsUrl ==
    [][\A u \in URLs :
          fetches'[u].total = fetches[u].total + 1 =>
              \A k \in (DOMAIN db \cup DOMAIN db')
                       \ {Utf8Encode(CountPrefix \o u), Utf8Encode(CachePrefix \o u)} :
                  k \in DOMAIN db /\ k \in DOMAIN db' /\ db'[k] = db[k]]_vars

\* a page was fetched and cached for one url while the database held the
\* counter and the cached page of the other url, a stored value, the call
\* counter and both logs of the facade
C20_Witness ==
    \E u \in URLs, v \in URLs :
        /\ u # v
        /\ last.op = "get_page" /\ last.arg = u
        /\ last.ret.kind = "str" /\ last.ret.s # <<>>
        /\ CounterValue(CountPrefix \o v) > 0
        /\ Utf8Encode(CachePrefix \o v) \in DOMAIN db
        /\ Utf8Encode(CachePrefix \o u) \in DOMAIN db
        /\ CounterValue(QualName) > 0
        /\ InputsLog # <<>> /\ OutputsLog # <<>>
        /\ \E key \in DOMAIN stored : HoldsString(db, key)

(***************************************************************************)
(* Readings of the concurrent calls.                                       *)
(***************************************************************************)
\* the primitive prim is among the first n primitives caller p has sent
SentWithin(p, prim, n) == \E i \in 1..n : procs[p].did[i] = prim
Sent(p, prim) == SentWithin(p, prim, Len(procs[p].did))

\* the number of values the database holds under keys store has drawn
Written == Cardinality({key \in UUIDs : Utf8Encode(key) \in DOMAIN db})

\* how often item x occurs in the list q
Occurrences(q, x) == Cardinality({i \in 1..Len(q) : q[i] = x})

(***************************************************************************)
(* C14.  Within one call of the instrumented store the counter is          *)
(* incremented before the write of the store is made, and the argument     *)
(* tuple is appended to the inputs log before the returned key is appended *)
(* to the outputs log; so the database never holds more written values     *)
(* than the counter says, nor more outputs than inputs.                    *)
(***************************************************************************)
C14_PrimitivesInOrder ==
    /\ \A p \in Callers : \A j \in 1..Len(procs[p].did) :
           /\ procs[p].did[j] = "store" => SentWithin(p, "incr", j - 1)
           /\ procs[p].did[j] = "log_output" => SentWithin(p, "log_input", j - 1)
    /\ Written <= CounterValue(QualName)
    /\ Len(OutputsLog) <= Len(InputsLog)

\* one caller has sent all four primitives and returned while another is
\* between its increment and its write
C14_Witness ==
    \E p \in Callers, q \in Callers :
        /\ procs[p].state = "returned"
        /\ Len(procs[p].did) = 4
        /\ procs[q].state = "running"
        /\ Sent(q, "incr") /\ ~Sent(q, "store")

(***************************************************************************)
(* C17.  With concurrent callers the call counter can differ from the      *)
(* number of writes made: the counter exceeds that number by exactly the   *)
(* number of callers that have incremented and have not, or not yet, made  *)
(* their write, and a state in which this number is not zero is reached.   *)
(***************************************************************************)
C17_CounterLeadsWritesByCallsInFlight ==
    CounterValue(QualName) - Written =
        Cardinality({p \in Callers : Sent(p, "incr") /\ ~Sent(p, "store")})

\* one caller has returned, another was interrupted between its increment
\* and its write: the counter is 2, one value is written
C17_Witness ==
    /\ CounterValue(QualName) = 2
    /\ Written = 1
    /\ \E p \in Callers, q \in Callers :
           /\ procs[p].state = "returned"
           /\ procs[q].state = "running" /\ procs[q].did = <<"incr">>

(***************************************************************************)
(* C19.  When k concurrent calls of the instrumented store have all        *)
(* returned and no call is in progress, the counter is k, both logs have   *)
(* length k, every argument tuple is in the inputs log as often as it was  *)
(* passed and the key of every call is in the outputs log exactly once,    *)
(* whatever the interleaving was.                                          *)
(***************************************************************************)
C19_AllCallsAccountedFor ==
    LET returned == {p \in Callers : procs[p].state = "returned"}
        k == Cardinality(returned)
    IN  (\A p \in Callers : procs[p].state \in {"idle", "returned"}) =>
            /\ CounterValue(QualName) = k
            /\ Len(InputsLog) = k
            /\ Len(OutputsLog) = k
            /\ \A p \in returned :
                   /\ Occurrences(InputsLog, Utf8Encode(StrArgs(procs[p].args))) =
                          Cardinality({q \in returned : procs[q].args = procs[p].args})
                   /\ Occurrences(OutputsLog, Utf8Encode(procs[p].key)) = 1

\* two calls with different arguments have returned, and the first entry
\* of the inputs log and the first entry of the outputs log belong to
\* different calls
C19_Witness ==
    /\ \A p \in Callers : procs[p].state = "returned"
    /\ \E p \in Callers, q \in Callers :
           /\ procs[p].args # procs[q].args
           /\ InputsLog[1] = Utf8Encode(StrArgs(procs[p].args))
           /\ OutputsLog[1] = Utf8Encode(procs[q].key)

====
